---- MODULE Spec2Model ----
(***************************************************************************)
(* A model of the turn-resolution and combat engine of clonequest          *)
(* (src/src/game.rs): Game::new, Game::queue_fleet, Game::end_turn,         *)
(* Game::remaining_players and Game::get_winner.                            *)
(*                                                                         *)
(* usize arithmetic.  Every count in the engine is a usize.  A usize value *)
(* is kept here as its residue modulo 2^64 in the signed range: a small    *)
(* natural as itself, 2^64 - k as -k.  Addition and subtraction modulo     *)
(* 2^64 are then the integer operations, and only the comparisons differ   *)
(* (ULt).  An operation that leaves the range panics in a build with       *)
(* overflow checks and wraps in a build without them; the model follows    *)
(* both builds (PanicChoices).                                             *)
(***************************************************************************)
EXTENDS Integers, Sequences, FiniteSets, TLC

VARIABLES
    _planets,           \* Game::_planets, indexed by PlanetId.0 (from 0)
    _players,           \* Game::_players, a sequence; PlayerId.0 = index - 1
    _fleets,            \* Game::_fleets
    _queued_commands,   \* Game::_queued_commands, pairs <<PlayerId, SendShipsCommand>>
    _w,                 \* Game::_w
    _h,                 \* Game::_h
    pc,                 \* position of the caller: "idle", inside end_turn, or "panicked"
    cursor,             \* end_turn: index of the fleet the loop of line 103 is at
    messages,           \* end_turn: the local `messages`; once idle, the returned value
    alive_before,       \* end_turn: the local `alive_before`
    wrapping,           \* an overflowing operation has wrapped: the build has no overflow checks
    turn,               \* history: number of end_turn calls started
    flight,             \* history, parallel to _fleets: travel time at launch, end_turn calls seen
    arrived,            \* history, per fleet handled in this end_turn call: how it was
                        \* handled, what it and its destination held when it was handled
    accepted,           \* history: number of orders queue_fleet has accepted
    args,               \* the arguments of the call of Game::new
    reported,           \* history: the players the earlier end_turn calls reported eliminated
    cli,                \* position of the front end: "none" (the game is driven directly),
                        \* "new" (Cli::new is to be called), "play" (at the prompt or
                        \* inside end_turn), "reset" (complete_turn is at line 160)
    current_player_id,  \* Cli::current_player_id
    players_to_make_moves, \* Cli::players_to_make_moves
    moved               \* history: the players that have finished a move phase with 'n'
                        \* since the last end_turn call returned

vars == <<_planets, _players, _fleets, _queued_commands, _w, _h, pc, cursor,
          messages, alive_before, wrapping, turn, flight, arrived, accepted, args,
          reported, cli, current_player_id, players_to_make_moves, moved>>

cliVars == <<cli, current_player_id, players_to_make_moves, moved>>

gameVars == <<_planets, _players, _fleets, _queued_commands, _w, _h, pc, cursor,
              messages, alive_before, wrapping, turn, flight, arrived, accepted, args,
              reported>>

----------------------------------------------------------------------------
(* Bounds of the model *)

\* end_turn calls followed
MaxTurns == 2

\* orders accepted over the game
MaxOrders == 2

\* ships of the fleets and planets a pass of the combat loop is tried on
MaxShips == 3

\* how far below 2^64 a wrapped count is followed
MaxWrap == 2

\* neutral planets asked of Game::new
MaxNeutral == 27

----------------------------------------------------------------------------
(* usize *)

UsizeMax == 0 - 1

\* a < b on usize
ULt(a, b) == IF (a < 0) = (b < 0) THEN a < b ELSE a >= 0

\* a - b leaves the usize range
SubOverflows(a, b) == ULt(a, b)

\* a + b leaves the usize range
AddOverflows(a, b) == (a < 0 /\ b < 0) \/ (((a < 0) # (b < 0)) /\ a + b >= 0)

\* What an operation that overflowed (ovf) can do: panic (TRUE) when the build
\* checks overflow, which is excluded once a value has wrapped; or wrap (FALSE).
PanicChoices(ovf) == IF ovf /\ ~wrapping THEN {TRUE, FALSE} ELSE {FALSE}

\* a roll that can take both values whatever the strength is
gen_bool_any(strength) == BOOLEAN

\* rand::Rng::gen_bool(strength / 100): the values the roll can take
gen_bool(strength) ==
    {b \in BOOLEAN : (b => strength > 0) /\ (~b => strength < 100)}

----------------------------------------------------------------------------
(* Pure functions *)

PLANET_NAMES ==
    <<"A", "B", "C", "D", "E", "F", "G", "H", "I", "J", "K", "L", "M",
      "N", "O", "P", "Q", "R", "S", "T", "U", "V", "W", "X", "Y", "Z">>

AbsDiff(a, b) == IF a >= b THEN a - b ELSE b - a

\* ceil(sqrt(dx^2 + dy^2) * 0.5): the least d with (2d)^2 >= dx^2 + dy^2
distance(a, b) ==
    LET dx == AbsDiff(a.pos[1], b.pos[1])
        dy == AbsDiff(a.pos[2], b.pos[2])
        s  == dx * dx + dy * dy
    IN  CHOOSE d \in 0..(dx + dy) :
            /\ 4 * d * d >= s
            /\ \A e \in 0..(d - 1) : 4 * e * e < s

\* Game::new with ten ships on the neutral planets as well
new_garrisoned(w, h, players, neutral_planets, rng) ==
    LET total_planets == Len(players) + neutral_planets
    IN  IF total_planets > w * h
        THEN [tag |-> "Err", err |-> "TooManyPlanets"]
        ELSE IF total_planets > Len(PLANET_NAMES)
        THEN [tag |-> "Panic", msg |-> "Ran out of planet names!"]
        ELSE [tag |-> "Ok",
              _planets |->
                 [id \in 0..(total_planets - 1) |->
                    IF id < Len(players)
                    THEN [name |-> PLANET_NAMES[id + 1],
                          ships |-> 10,
                          strength |-> 40,
                          production |-> 10,
                          pos |-> rng.positions[id + 1],
                          owner |-> {id}]
                    ELSE [name |-> PLANET_NAMES[id + 1],
                          ships |-> 10,
                          strength |-> rng.strength[id - Len(players) + 1],
                          production |-> rng.production[id - Len(players) + 1] + 5,
                          pos |-> rng.positions[id + 1],
                          owner |-> {}]],
              _players |-> players,
              _fleets |-> <<>>,
              _queued_commands |-> <<>>,
              _w |-> w,
              _h |-> h]

\* Game::new; rng holds what the random source yields: the positions drawn by
\* choose_multiple and the binomial samples of the neutral planets.
new(w, h, players, neutral_planets, rng) ==
    LET total_planets == Len(players) + neutral_planets
    IN  IF total_planets > w * h
        THEN [tag |-> "Err", err |-> "TooManyPlanets"]
        ELSE IF total_planets > Len(PLANET_NAMES)
        THEN [tag |-> "Panic", msg |-> "Ran out of planet names!"]
        ELSE [tag |-> "Ok",
              _planets |->
                 [id \in 0..(total_planets - 1) |->
                    IF id < Len(players)
                    THEN [name |-> PLANET_NAMES[id + 1],
                          ships |-> 10,
                          strength |-> 40,
                          production |-> 10,
                          pos |-> rng.positions[id + 1],
                          owner |-> {id}]
                    ELSE [name |-> PLANET_NAMES[id + 1],
                          ships |-> 0,
                          strength |-> rng.strength[id - Len(players) + 1],
                          production |-> rng.production[id - Len(players) + 1] + 5,
                          pos |-> rng.positions[id + 1],
                          owner |-> {}]],
              _players |-> players,
              _fleets |-> <<>>,
              _queued_commands |-> <<>>,
              _w |-> w,
              _h |-> h]

\* remaining_players without the owners of planets
players_remaining_fleets_only(planets, fleets) ==
    {fleets[i].owner : i \in DOMAIN fleets}

\* Option<PlayerId> is a set: None is {}, Some(p) is {p}.
players_remaining(planets, fleets) ==
    LET players_with_planets == UNION {planets[i].owner : i \in DOMAIN planets}
        players_with_fleets  == {fleets[i].owner : i \in DOMAIN fleets}
    IN  players_with_planets \cup players_with_fleets

remaining_players == players_remaining(_planets, _fleets)

\* a winner as soon as there is a remaining player
get_winner_any ==
    LET players == remaining_players
    IN  IF players # {} THEN {CHOOSE p \in players : TRUE} ELSE {}

get_winner ==
    LET players == remaining_players
    IN  IF Cardinality(players) = 1 THEN players ELSE {}

NumPlanets == Cardinality(DOMAIN _planets)

----------------------------------------------------------------------------
(* Initial states: games returned by Game::new *)

Alice == [name |-> "Alice"]
Bob   == [name |-> "Bob"]

\* The calls of Game::new the model starts from, each with one outcome of the
\* random source.
NewGameInputs ==
    {[w |-> 4, h |-> 1, players |-> <<Alice, Bob>>, neutral_planets |-> 1,
      rng |-> [positions |-> << <<0, 0>>, <<1, 0>>, <<3, 0>> >>,
               strength |-> <<55>>, production |-> <<0>>]]}
    \cup
    {[w |-> 3, h |-> 1, players |-> <<Alice>>, neutral_planets |-> 2,
      rng |-> [positions |-> << <<0, 0>>, <<1, 0>>, <<2, 0>> >>,
               strength |-> <<0, s>>, production |-> <<0, 0>>]] : s \in {0, 100}}
    \cup
    {[w |-> 2, h |-> 1, players |-> <<>>, neutral_planets |-> 1,
      rng |-> [positions |-> << <<0, 0>> >>,
               strength |-> <<55>>, production |-> <<0>>]]}

\* there is no front end: the game's operations are called directly
NoCli ==
    /\ cli = "none"
    /\ current_player_id = 0
    /\ players_to_make_moves = <<>>
    /\ moved = <<>>

NewGames ==
    \E in \in NewGameInputs :
        LET g == new(in.w, in.h, in.players, in.neutral_planets, in.rng)
        IN  /\ g.tag = "Ok"
            /\ _planets = g._planets
            /\ _players = g._players
            /\ _fleets = g._fleets
            /\ _queued_commands = g._queued_commands
            /\ _w = g._w
            /\ _h = g._h
            /\ pc = "idle"
            /\ cursor = 0
            /\ messages = <<>>
            /\ alive_before = {}
            /\ wrapping = FALSE
            /\ turn = 0
            /\ flight = <<>>
            /\ arrived = <<>>
            /\ accepted = 0
            /\ reported = {}
            /\ args = in

Init == NewGames /\ NoCli

\* The calls of Game::new followed on their own: grids up to 7 x 4, up to two
\* players, and for the random source the outcome that takes the first
\* positions of lines 162-166 and draws 55 and 5 for every neutral planet.
NewCalls ==
    {[w |-> w, h |-> h, players |-> players, neutral_planets |-> n,
      rng |-> [positions |-> [k \in 1..(Len(players) + n) |->
                                 <<(k - 1) \div h, (k - 1) % h>>],
               strength |-> [k \in 1..n |-> 55],
               production |-> [k \in 1..n |-> 0]]] :
        w \in {1, 4, 7}, h \in {1, 4},
        players \in {<<>>, <<Alice>>, <<Alice, Bob>>}, n \in 0..MaxNeutral}

\* Game::new has been called and has not returned
InitNew ==
    /\ args \in NewCalls
    /\ pc = "new"
    /\ _planets = <<>>
    /\ _players = <<>>
    /\ _fleets = <<>>
    /\ _queued_commands = <<>>
    /\ _w = 0
    /\ _h = 0
    /\ cursor = 0
    /\ messages = <<>>
    /\ alive_before = {}
    /\ wrapping = FALSE
    /\ turn = 0
    /\ flight = <<>>
    /\ arrived = <<>>
    /\ accepted = 0
    /\ reported = {}
    /\ NoCli

\* lines 150-197: the call returns Ok(Game), returns Err(TooManyPlanets), or
\* panics
NewGame ==
    /\ pc = "new"
    /\ LET g == new(args.w, args.h, args.players, args.neutral_planets, args.rng)
       IN  IF g.tag = "Ok"
           THEN /\ _planets' = g._planets
                /\ _players' = g._players
                /\ _fleets' = g._fleets
                /\ _queued_commands' = g._queued_commands
                /\ _w' = g._w
                /\ _h' = g._h
                /\ pc' = "idle"
           ELSE /\ pc' = IF g.tag = "Err" THEN g.err ELSE "panicked"
                /\ UNCHANGED <<_planets, _players, _fleets, _queued_commands, _w, _h>>
    /\ UNCHANGED <<cursor, messages, alive_before, wrapping, turn, flight, arrived,
                   accepted, args, reported>>

NextNew == NewGame /\ UNCHANGED cliVars

NewSpec == InitNew /\ [][NextNew]_vars

----------------------------------------------------------------------------
(* Game::queue_fleet *)

RECURSIVE SumCounts(_, _)
\* the sum of the counts of the queued commands whose source is source_planet_id
SumCounts(cmds, source_planet_id) ==
    IF cmds = <<>> THEN 0
    ELSE (IF Head(cmds)[2].source_planet_id = source_planet_id
          THEN Head(cmds)[2].count ELSE 0)
         + SumCounts(Tail(cmds), source_planet_id)

\* queue_fleet with the ships already queued from the source left out of the check
queue_fleet_unqueued(player_id, source_planet_id, destination_planet_id, count) ==
    IF NumPlanets <= source_planet_id \/ NumPlanets <= destination_planet_id
    THEN [result |-> "NoSuchPlanet", queue |-> _queued_commands, ovf |-> FALSE]
    ELSE IF _planets[source_planet_id].owner # {player_id}
    THEN [result |-> "NotYourPlanet", queue |-> _queued_commands, ovf |-> FALSE]
    ELSE IF ULt(_planets[source_planet_id].ships, count)
    THEN [result |-> "NotEnoughShips", queue |-> _queued_commands, ovf |-> FALSE]
    ELSE [result |-> "Ok",
          queue |-> Append(_queued_commands,
                           <<player_id,
                             [source_planet_id |-> source_planet_id,
                              destination_planet_id |-> destination_planet_id,
                              count |-> count]>>),
          ovf |-> FALSE]

\* queue_fleet with an accepted command pushed twice
queue_fleet_twice(player_id, source_planet_id, destination_planet_id, count) ==
    LET command == <<player_id,
                     [source_planet_id |-> source_planet_id,
                      destination_planet_id |-> destination_planet_id,
                      count |-> count]>>
    IN  IF NumPlanets <= source_planet_id \/ NumPlanets <= destination_planet_id
        THEN [result |-> "NoSuchPlanet", queue |-> _queued_commands, ovf |-> FALSE]
        ELSE IF _planets[source_planet_id].owner # {player_id}
        THEN [result |-> "NotYourPlanet", queue |-> _queued_commands, ovf |-> FALSE]
        ELSE LET planet_queued_ships == SumCounts(_queued_commands, source_planet_id)
                 planet_remaining_ships ==
                     _planets[source_planet_id].ships - planet_queued_ships
                 ovf == SubOverflows(_planets[source_planet_id].ships, planet_queued_ships)
             IN  IF ULt(planet_remaining_ships, count)
                 THEN [result |-> "NotEnoughShips", queue |-> _queued_commands,
                       ovf |-> ovf]
                 ELSE [result |-> "Ok",
                       queue |-> Append(Append(_queued_commands, command), command),
                       ovf |-> ovf]

\* queue_fleet with the command pushed before the ships are checked
queue_fleet_push_first(player_id, source_planet_id, destination_planet_id, count) ==
    LET pushed == Append(_queued_commands,
                         <<player_id,
                           [source_planet_id |-> source_planet_id,
                            destination_planet_id |-> destination_planet_id,
                            count |-> count]>>)
    IN  IF NumPlanets <= source_planet_id \/ NumPlanets <= destination_planet_id
        THEN [result |-> "NoSuchPlanet", queue |-> _queued_commands, ovf |-> FALSE]
        ELSE IF _planets[source_planet_id].owner # {player_id}
        THEN [result |-> "NotYourPlanet", queue |-> _queued_commands, ovf |-> FALSE]
        ELSE LET planet_queued_ships == SumCounts(_queued_commands, source_planet_id)
                 planet_remaining_ships ==
                     _planets[source_planet_id].ships - planet_queued_ships
                 ovf == SubOverflows(_planets[source_planet_id].ships, planet_queued_ships)
             IN  IF ULt(planet_remaining_ships, count)
                 THEN [result |-> "NotEnoughShips", queue |-> pushed, ovf |-> ovf]
                 ELSE [result |-> "Ok", queue |-> pushed, ovf |-> ovf]

queue_fleet(player_id, source_planet_id, destination_planet_id, count) ==
    IF NumPlanets <= source_planet_id \/ NumPlanets <= destination_planet_id
    THEN [result |-> "NoSuchPlanet", queue |-> _queued_commands, ovf |-> FALSE]
    ELSE IF _planets[source_planet_id].owner # {player_id}
    THEN [result |-> "NotYourPlanet", queue |-> _queued_commands, ovf |-> FALSE]
    ELSE LET planet_queued_ships == SumCounts(_queued_commands, source_planet_id)
             planet_remaining_ships ==
                 _planets[source_planet_id].ships - planet_queued_ships
             ovf == SubOverflows(_planets[source_planet_id].ships, planet_queued_ships)
         IN  IF ULt(planet_remaining_ships, count)
             THEN [result |-> "NotEnoughShips", queue |-> _queued_commands, ovf |-> ovf]
             ELSE [result |-> "Ok",
                   queue |-> Append(_queued_commands,
                                    <<player_id,
                                      [source_planet_id |-> source_planet_id,
                                       destination_planet_id |-> destination_planet_id,
                                       count |-> count]>>),
                   ovf |-> ovf]

\* the process aborts
Panic ==
    /\ pc' = "panicked"
    /\ UNCHANGED <<args, reported, _planets, _players, _fleets, _queued_commands, _w, _h, cursor,
                   messages, alive_before, wrapping, turn, flight, arrived, accepted>>

PlayerIds == 0..(Len(_players) - 1)

\* planet ids a caller may pass: the valid ones and one out of range
PlanetIds == 0..NumPlanets

\* ship counts a caller may pass
Counts == {0, 1, 10, UsizeMax}

QueueFleetCall(player_id, source_planet_id, destination_planet_id, count) ==
    LET r == queue_fleet(player_id, source_planet_id, destination_planet_id, count)
    IN  /\ pc = "idle"
        /\ r.result = "Ok" => accepted < MaxOrders
        /\ \E panics \in PanicChoices(r.ovf) :
              IF panics THEN Panic
              ELSE /\ _queued_commands' = r.queue
                   /\ wrapping' = (wrapping \/ r.ovf)
                   /\ accepted' = IF r.result = "Ok" THEN accepted + 1 ELSE accepted
                   /\ UNCHANGED <<args, reported, _planets, _players, _fleets, _w, _h, pc, cursor,
                                  messages, alive_before, turn, flight, arrived>>

QueueFleet ==
    \E player_id \in PlayerIds, source_planet_id \in PlanetIds,
       destination_planet_id \in PlanetIds, count \in Counts :
        QueueFleetCall(player_id, source_planet_id, destination_planet_id, count)

----------------------------------------------------------------------------
(* Game::end_turn *)

\* a <= b on usize
ULe(a, b) == ~ULt(b, a)

\* a production step in which the neutral planets gain ships as well
produce_every_planet(planets) ==
    [i \in DOMAIN planets |->
        [planets[i] EXCEPT !.ships = @ + planets[i].production]]

\* lines 88-90: every owned planet gains its production
produce(planets) ==
    [i \in DOMAIN planets |->
        IF planets[i].owner # {}
        THEN [planets[i] EXCEPT !.ships = @ + planets[i].production]
        ELSE planets[i]]

produce_overflows(planets) ==
    \E i \in DOMAIN planets :
        planets[i].owner # {} /\ AddOverflows(planets[i].ships, planets[i].production)

\* a fleet that leaves with one ship more than the order's count
launch_with_escort(planets, player, command) ==
    LET source_planet == planets[command.source_planet_id]
        destination_planet == planets[command.destination_planet_id]
    IN  [ships |-> command.count + 1,
         strength |-> source_planet.strength,
         turns_to_arrival |-> distance(source_planet, destination_planet),
         destination |-> command.destination_planet_id,
         owner |-> player]

\* a fleet that takes the strength of its destination
launch_with_destination_strength(planets, player, command) ==
    LET source_planet == planets[command.source_planet_id]
        destination_planet == planets[command.destination_planet_id]
    IN  [ships |-> command.count,
         strength |-> destination_planet.strength,
         turns_to_arrival |-> distance(source_planet, destination_planet),
         destination |-> command.destination_planet_id,
         owner |-> player]

\* a fleet that takes the destination's id for its owner's
launch_owned_by_destination(planets, player, command) ==
    LET source_planet == planets[command.source_planet_id]
        destination_planet == planets[command.destination_planet_id]
    IN  [ships |-> command.count,
         strength |-> source_planet.strength,
         turns_to_arrival |-> distance(source_planet, destination_planet),
         destination |-> command.destination_planet_id,
         owner |-> command.destination_planet_id]

\* lines 95-101: the fleet an order becomes, the count already taken from the source
launch(planets, player, command) ==
    LET source_planet == planets[command.source_planet_id]
        destination_planet == planets[command.destination_planet_id]
    IN  [ships |-> command.count,
         strength |-> source_planet.strength,
         turns_to_arrival |-> distance(source_planet, destination_planet),
         destination |-> command.destination_planet_id,
         owner |-> player]

RECURSIVE materialize_in_front(_, _, _, _)
\* the queue drained with each new fleet put before the fleets in flight
materialize_in_front(planets, fleets, flights, cmds) ==
    IF cmds = <<>>
    THEN [planets |-> planets, fleets |-> fleets, flights |-> flights, ovf |-> FALSE]
    ELSE LET player == Head(cmds)[1]
             command == Head(cmds)[2]
             src == command.source_planet_id
             planets1 == [planets EXCEPT ![src].ships = @ - command.count]
             fleet == launch(planets1, player, command)
             rest == materialize_in_front(planets1, <<fleet>> \o fleets,
                                          <<[travel |-> fleet.turns_to_arrival,
                                             calls |-> 0]>> \o flights,
                                          Tail(cmds))
         IN  [rest EXCEPT !.ovf = @ \/ SubOverflows(planets[src].ships, command.count)]

RECURSIVE materialize(_, _, _, _)
\* lines 91-102: the queue is drained in order, each order leaving its source
materialize(planets, fleets, flights, cmds) ==
    IF cmds = <<>>
    THEN [planets |-> planets, fleets |-> fleets, flights |-> flights, ovf |-> FALSE]
    ELSE LET player == Head(cmds)[1]
             command == Head(cmds)[2]
             src == command.source_planet_id
             planets1 == [planets EXCEPT ![src].ships = @ - command.count]
             fleet == launch(planets1, player, command)
             rest == materialize(planets1, Append(fleets, fleet),
                                 Append(flights, [travel |-> fleet.turns_to_arrival,
                                                  calls |-> 0]),
                                 Tail(cmds))
         IN  [rest EXCEPT !.ovf = @ \/ SubOverflows(planets[src].ships, command.count)]

\* lines 86-102, up to the loop over the fleets
EndTurnBegin ==
    /\ pc = "idle"
    /\ turn < MaxTurns
    /\ LET produced == produce(_planets)
           m == materialize(produced, _fleets, flight, _queued_commands)
           ovf == produce_overflows(_planets) \/ m.ovf
       IN  \E panics \in PanicChoices(ovf) :
              IF panics THEN Panic
              ELSE /\ alive_before' = remaining_players
                   /\ _planets' = m.planets
                   /\ _fleets' = m.fleets
                   /\ flight' = m.flights
                   /\ _queued_commands' = <<>>
                   /\ messages' = <<>>
                   /\ arrived' = <<>>
                   /\ cursor' = 1
                   /\ pc' = "fleets"
                   /\ turn' = turn + 1
                   /\ wrapping' = (wrapping \/ ovf)
                   /\ reported' = reported \cup
                          {messages[k].id :
                              k \in {j \in DOMAIN messages :
                                        messages[j].type = "PlayerEliminated"}}
                   /\ UNCHANGED <<args, _players, _w, _h, accepted>>

\* a reinforcement that brings the fleet's strength to the planet
reinforce_strengthening(dest_planet, fleet) ==
    [dest_planet EXCEPT !.ships = @ + fleet.ships, !.strength = fleet.strength]

\* the destination with its ships replaced by the fleet's, not added to
reinforce_replacing(dest_planet, fleet) ==
    [dest_planet EXCEPT !.ships = fleet.ships]

\* line 108
reinforce(dest_planet, fleet) ==
    [dest_planet EXCEPT !.ships = @ + fleet.ships]

\* lines 103-110: one iteration of the loop, up to the combat loop
FleetStep ==
    /\ pc = "fleets"
    /\ cursor <= Len(_fleets)
    /\ LET fleet == [_fleets[cursor] EXCEPT !.turns_to_arrival = @ - 1]
           dest_planet == _planets[fleet.destination]
           arrives == fleet.turns_to_arrival = 0
           friendly == {fleet.owner} = dest_planet.owner
           ovf == \/ SubOverflows(_fleets[cursor].turns_to_arrival, 1)
                  \/ (arrives /\ friendly /\ AddOverflows(dest_planet.ships, fleet.ships))
       IN  \E panics \in PanicChoices(ovf) :
              IF panics THEN Panic
              ELSE /\ _fleets' = [_fleets EXCEPT ![cursor] = fleet]
                   /\ flight' = [flight EXCEPT ![cursor].calls = @ + 1]
                   /\ arrived' = Append(arrived,
                                        [kind |-> IF ~arrives THEN "transit"
                                                  ELSE IF friendly THEN "friendly"
                                                  ELSE "hostile",
                                         first |-> Len(messages),
                                         ships |-> fleet.ships,
                                         defenders |-> dest_planet.ships,
                                         owner |-> dest_planet.owner])
                   /\ IF arrives /\ friendly
                      THEN /\ messages' = Append(messages,
                                                 [type |-> "ReinforcementsArrived",
                                                  fleet |-> fleet])
                           /\ _planets' = [_planets EXCEPT ![fleet.destination] =
                                                              reinforce(dest_planet, fleet)]
                      ELSE UNCHANGED <<messages, _planets>>
                   /\ IF arrives /\ ~friendly
                      THEN pc' = "combat" /\ cursor' = cursor
                      ELSE pc' = "fleets" /\ cursor' = cursor + 1
                   /\ wrapping' = (wrapping \/ ovf)
                   /\ UNCHANGED <<args, reported, _players, _queued_commands, _w, _h, alive_before,
                                  turn, accepted>>

\* a pass of the combat loop in which a planet without ships falls to a fleet
\* that has survived the defender's roll, whatever the attacker's roll is
combat_round_unrolled(fleet, dest_planet, defender_roll, attacker_roll) ==
    LET fleet1 == IF defender_roll THEN [fleet EXCEPT !.ships = @ - 1] ELSE fleet
        ovf == defender_roll /\ SubOverflows(fleet.ships, 1)
    IN  IF defender_roll /\ ULe(fleet1.ships, 0)
        THEN [fleet |-> fleet1, dest_planet |-> dest_planet, done |-> TRUE, ovf |-> ovf,
              messages |-> <<[type |-> "AttackFailed", fleet |-> fleet1]>>]
        ELSE IF ULe(dest_planet.ships, 0)
        THEN [fleet |-> fleet1,
              dest_planet |-> [dest_planet EXCEPT !.owner = {fleet1.owner},
                                                  !.ships = fleet1.ships],
              done |-> TRUE, ovf |-> ovf,
              messages |-> <<[type |-> "AttackSucceeded", fleet |-> fleet1]>>]
        ELSE IF attacker_roll
        THEN [fleet |-> fleet1,
              dest_planet |-> [dest_planet EXCEPT !.ships = @ - 1],
              done |-> FALSE, ovf |-> ovf, messages |-> <<>>]
        ELSE [fleet |-> fleet1, dest_planet |-> dest_planet, done |-> FALSE,
              ovf |-> ovf, messages |-> <<>>]

\* a pass in which a defeated fleet leaves its destination without an owner
combat_round_razing(fleet, dest_planet, defender_roll, attacker_roll) ==
    LET fleet1 == IF defender_roll THEN [fleet EXCEPT !.ships = @ - 1] ELSE fleet
        ovf == defender_roll /\ SubOverflows(fleet.ships, 1)
    IN  IF defender_roll /\ ULe(fleet1.ships, 0)
        THEN [fleet |-> fleet1, dest_planet |-> [dest_planet EXCEPT !.owner = {}],
              done |-> TRUE, ovf |-> ovf,
              messages |-> <<[type |-> "AttackFailed", fleet |-> fleet1]>>]
        ELSE IF attacker_roll
        THEN IF ULe(dest_planet.ships, 0)
             THEN [fleet |-> fleet1,
                   dest_planet |-> [dest_planet EXCEPT !.owner = {fleet1.owner},
                                                       !.ships = fleet1.ships],
                   done |-> TRUE, ovf |-> ovf,
                   messages |-> <<[type |-> "AttackSucceeded", fleet |-> fleet1]>>]
             ELSE [fleet |-> fleet1,
                   dest_planet |-> [dest_planet EXCEPT !.ships = @ - 1],
                   done |-> FALSE, ovf |-> ovf, messages |-> <<>>]
        ELSE [fleet |-> fleet1, dest_planet |-> dest_planet, done |-> FALSE,
              ovf |-> ovf, messages |-> <<>>]

\* lines 111-132: one pass of the body of the combat loop
combat_round(fleet, dest_planet, defender_roll, attacker_roll) ==
    LET fleet1 == IF defender_roll THEN [fleet EXCEPT !.ships = @ - 1] ELSE fleet
        ovf == defender_roll /\ SubOverflows(fleet.ships, 1)
    IN  IF defender_roll /\ ULe(fleet1.ships, 0)
        THEN [fleet |-> fleet1, dest_planet |-> dest_planet, done |-> TRUE, ovf |-> ovf,
              messages |-> <<[type |-> "AttackFailed", fleet |-> fleet1]>>]
        ELSE IF attacker_roll
        THEN IF ULe(dest_planet.ships, 0)
             THEN [fleet |-> fleet1,
                   dest_planet |-> [dest_planet EXCEPT !.owner = {fleet1.owner},
                                                       !.ships = fleet1.ships],
                   done |-> TRUE, ovf |-> ovf,
                   messages |-> <<[type |-> "AttackSucceeded", fleet |-> fleet1]>>]
             ELSE [fleet |-> fleet1,
                   dest_planet |-> [dest_planet EXCEPT !.ships = @ - 1],
                   done |-> FALSE, ovf |-> ovf, messages |-> <<>>]
        ELSE [fleet |-> fleet1, dest_planet |-> dest_planet, done |-> FALSE,
              ovf |-> ovf, messages |-> <<>>]

CombatRoundWith(defender_roll, attacker_roll) ==
    /\ pc = "combat"
    /\ LET fleet == _fleets[cursor]
           r == combat_round(fleet, _planets[fleet.destination],
                             defender_roll, attacker_roll)
       IN  /\ defender_roll \in gen_bool(_planets[fleet.destination].strength)
           /\ attacker_roll \in gen_bool(fleet.strength)
           /\ r.fleet.ships >= 0 - MaxWrap
           /\ r.dest_planet.ships >= 0 - MaxWrap
           /\ \E panics \in PanicChoices(r.ovf) :
                 IF panics THEN Panic
                 ELSE /\ _fleets' = [_fleets EXCEPT ![cursor] = r.fleet]
                      /\ _planets' = [_planets EXCEPT ![fleet.destination] = r.dest_planet]
                      /\ messages' = messages \o r.messages
                      /\ IF r.done
                         THEN pc' = "fleets" /\ cursor' = cursor + 1
                         ELSE pc' = "combat" /\ cursor' = cursor
                      /\ wrapping' = (wrapping \/ r.ovf)
                      /\ UNCHANGED <<args, reported, _players, _queued_commands, _w, _h, alive_before,
                                     turn, flight, arrived, accepted>>

CombatRound ==
    /\ pc = "combat"
    /\ \E defender_roll \in BOOLEAN, attacker_roll \in BOOLEAN :
            CombatRoundWith(defender_roll, attacker_roll)

\* line 137
survives(f) == ULt(0, f.turns_to_arrival) /\ ULt(0, f.ships)

\* the indices of the fleets kept by the filter of lines 136-138, in order
RECURSIVE Kept(_, _)
Kept(fleets, i) ==
    IF i > Len(fleets) THEN <<>>
    ELSE (IF survives(fleets[i]) THEN <<i>> ELSE <<>>) \o Kept(fleets, i + 1)

\* the orders in which a HashSet can yield its elements
Orders(S) ==
    {s \in [1..Cardinality(S) -> S] : \A i, j \in 1..Cardinality(S) : s[i] = s[j] => i = j}

\* lines 136-147.  drain(..) has emptied self._fleets when remaining_players
\* is called at line 140; new_fleets is stored at line 146.
EndTurnFinish ==
    /\ pc = "fleets"
    /\ cursor > Len(_fleets)
    /\ LET kept == Kept(_fleets, 1)
           new_fleets == [k \in 1..Len(kept) |-> _fleets[kept[k]]]
           alive_after == players_remaining(_planets, <<>>)
       IN  /\ \E order \in Orders(alive_before \ alive_after) :
                 messages' = messages \o
                     [k \in 1..Len(order) |->
                         [type |-> "PlayerEliminated", player |-> _players[order[k] + 1],
                          id |-> order[k]]]
           /\ _fleets' = new_fleets
           /\ flight' = [k \in 1..Len(kept) |-> flight[kept[k]]]
    /\ pc' = "idle"
    /\ cursor' = 0
    /\ UNCHANGED <<args, reported, _planets, _players, _queued_commands, _w, _h, alive_before,
                   wrapping, turn, arrived, accepted>>

Next ==
    \/ QueueFleet /\ UNCHANGED cliVars
    \/ EndTurnBegin /\ UNCHANGED cliVars
    \/ FleetStep /\ UNCHANGED cliVars
    \/ CombatRound /\ UNCHANGED cliVars
    \/ EndTurnFinish /\ UNCHANGED cliVars

Spec == Init /\ [][Next]_vars

\* an outcome of the two rolls that has a positive probability in every pass
\* of a combat loop does not fail to come forever
FairSpec ==
    /\ Spec
    /\ \A defender_roll \in BOOLEAN, attacker_roll \in BOOLEAN :
          WF_vars(CombatRoundWith(defender_roll, attacker_roll) /\ UNCHANGED cliVars)

----------------------------------------------------------------------------
(* The command-line front end *)

\* a set of player ids as a vector sorted by |a, b| b.cmp(a): the largest first
RECURSIVE sort_descending(_)
sort_descending(ids) ==
    IF ids = {} THEN <<>>
    ELSE LET largest == CHOOSE a \in ids : \A b \in ids : b <= a
         IN  <<largest>> \o sort_descending(ids \ {largest})

\* Cli::next_player on the vector `moves`: the last id becomes the current
\* player, or, when there is none, complete_turn calls Game::end_turn
next_player(moves) ==
    IF moves # <<>>
    THEN /\ current_player_id' = moves[Len(moves)]
         /\ players_to_make_moves' = SubSeq(moves, 1, Len(moves) - 1)
         /\ UNCHANGED gameVars
    ELSE /\ players_to_make_moves' = moves
         /\ UNCHANGED current_player_id
         /\ EndTurnBegin

\* Cli::play goes on to do_turn
Prompt == cli = "play" /\ pc = "idle" /\ get_winner = {}

\* a game Game::new has returned, before Cli::new is called with it; the
\* two fields have the values line 89 and line 90 give them
InitCli ==
    /\ NewGames
    /\ cli = "new"
    /\ current_player_id = 0
    /\ players_to_make_moves = <<>>
    /\ moved = <<>>

\* Cli::new up to the call of Game::end_turn
CliNew ==
    /\ cli = "new"
    /\ next_player(<<>>)
    /\ cli' = "play"
    /\ UNCHANGED moved

\* do_command, "s": the planet names have been resolved to their indices and
\* the count has been parsed
CliSend ==
    /\ Prompt
    /\ \E src \in DOMAIN _planets, dest \in DOMAIN _planets, count \in Counts :
          QueueFleetCall(current_player_id, src, dest, count)
    /\ UNCHANGED cliVars

\* do_command, "n"
CliFinishMove ==
    /\ Prompt
    /\ next_player(players_to_make_moves)
    /\ moved' = Append(moved, current_player_id)
    /\ UNCHANGED cli

\* complete_turn: Game::end_turn returns, the events are printed, reset_moves
CliCompleteTurn ==
    /\ cli = "play"
    /\ EndTurnFinish
    /\ players_to_make_moves' = sort_descending(remaining_players')
    /\ cli' = "reset"
    /\ moved' = <<>>
    /\ UNCHANGED current_player_id

\* complete_turn, line 160
CliResume ==
    /\ cli = "reset"
    /\ next_player(players_to_make_moves)
    /\ cli' = "play"
    /\ UNCHANGED moved

NextCli ==
    \/ CliNew
    \/ CliSend
    \/ CliFinishMove
    \/ FleetStep /\ UNCHANGED cliVars
    \/ CombatRound /\ UNCHANGED cliVars
    \/ CliCompleteTurn
    \/ CliResume

CliSpec == InitCli /\ [][NextCli]_vars

----------------------------------------------------------------------------
(* Properties *)

ValidPlanetIds == DOMAIN _planets

\* the ships of the orders queued from planet s, counted from the queue's end
RECURSIVE QueuedFromUpTo(_, _)
QueuedFromUpTo(s, n) ==
    IF n = 0 THEN 0
    ELSE QueuedFromUpTo(s, n - 1)
         + (IF _queued_commands[n][2].source_planet_id = s
            THEN _queued_commands[n][2].count ELSE 0)

QueuedFrom(s) == QueuedFromUpTo(s, Len(_queued_commands))

\* the events end_turn has pushed for the fleet at index i of this call
EventsOf(i) ==
    LET last == IF i < Len(arrived) THEN arrived[i + 1].first
                ELSE Len(SelectSeq(messages, LAMBDA m : m.type # "PlayerEliminated"))
    IN  SubSeq(messages, arrived[i].first + 1, last)

\* the end_turn call has returned
Returned == pc = "idle" /\ turn > 0

\* the players the returned events report as eliminated
Eliminated ==
    {messages[k].id : k \in {j \in DOMAIN messages : messages[j].type = "PlayerEliminated"}}

\* C1: no subtraction takes a planet's ships below zero: the orders queued at
\* any moment can all be taken from their sources when the turn ends, and no
\* round of a combat decrements a planet that holds no ships.
C1_NoPlanetUnderflow ==
    /\ pc = "idle" =>
          ~materialize(produce(_planets), _fleets, flight, _queued_commands).ovf
    /\ pc = "combat" =>
          \A defender_roll \in BOOLEAN, attacker_roll \in BOOLEAN :
              LET fleet == _fleets[cursor]
                  dest_planet == _planets[fleet.destination]
                  r == combat_round(fleet, dest_planet, defender_roll, attacker_roll)
              IN  r.done \/ ULe(r.dest_planet.ships, dest_planet.ships)

\* C2: when end_turn has returned, the players it reported as eliminated are
\* exactly those that were remaining before the call and are not remaining
\* after it (remaining: owns a planet or has a fleet in flight).
C2_EliminatedIffLeft ==
    Returned => Eliminated = alive_before \ remaining_players

\* C3: an order whose source is its destination is rejected and the queue is
\* left as it was, so that no fleet is ever launched with travel time 0.
C3_SameBodyRejected ==
    /\ \A player_id \in PlayerIds, p \in ValidPlanetIds, count \in Counts :
          LET r == queue_fleet(player_id, p, p, count)
          IN  r.result # "Ok" /\ r.queue = _queued_commands
    /\ \A i \in DOMAIN flight : flight[i].travel >= 1

\* C4: for valid planets and a source the player owns, an order is accepted
\* if and only if its count is at most the source's ships less the ships
\* already queued from that source; a refused order leaves the earlier ones
\* queued; the ships queued from a planet never exceed the planet's ships.
C4_AcceptedIffAvailable ==
    /\ \A s \in ValidPlanetIds : ULe(QueuedFrom(s), _planets[s].ships)
    /\ pc = "idle" =>
          \A player_id \in PlayerIds, s \in ValidPlanetIds, d \in ValidPlanetIds,
             count \in Counts :
              _planets[s].owner = {player_id} =>
                  LET r == queue_fleet(player_id, s, d, count)
                      available == _planets[s].ships - QueuedFrom(s)
                  IN  /\ r.result = "Ok" <=> ULe(count, available)
                      /\ r.result = "Ok" =>
                            /\ Len(r.queue) = Len(_queued_commands) + 1
                            /\ SubSeq(r.queue, 1, Len(_queued_commands)) = _queued_commands
                            /\ r.queue[Len(r.queue)] =
                                  <<player_id, [source_planet_id |-> s,
                                                destination_planet_id |-> d,
                                                count |-> count]>>
                      /\ r.result # "Ok" =>
                            r.result = "NotEnoughShips" /\ r.queue = _queued_commands

\* C4 witness: ships are queued from a planet, and an order that would have
\* fitted without them is refused.
C4_Witness ==
    /\ pc = "idle"
    /\ \E player_id \in PlayerIds, s \in ValidPlanetIds, d \in ValidPlanetIds,
          count \in Counts :
          /\ _planets[s].owner = {player_id}
          /\ QueuedFrom(s) > 0
          /\ count > 0
          /\ count <= _planets[s].ships
          /\ queue_fleet(player_id, s, d, count).result = "NotEnoughShips"

\* the error queue_fleet's checks give, in their order
ExpectedResult(player_id, s, d, count) ==
    IF s \notin ValidPlanetIds \/ d \notin ValidPlanetIds THEN "NoSuchPlanet"
    ELSE IF player_id \notin _planets[s].owner THEN "NotYourPlanet"
    ELSE IF ULt(_planets[s].ships - QueuedFrom(s), count) THEN "NotEnoughShips"
    ELSE "Ok"

C5_Errors ==
    pc = "idle" =>
        \A player_id \in PlayerIds, s \in PlanetIds, d \in PlanetIds, count \in Counts :
            LET r == queue_fleet(player_id, s, d, count)
            IN  /\ r.result = ExpectedResult(player_id, s, d, count)
                /\ r.result # "Ok" => r.queue = _queued_commands

\* a step between two idle states is a call of queue_fleet: it changes
\* nothing but the queue, and the queue only by an accepted order at its end
C5_Frame ==
    (pc = "idle" /\ pc' = "idle") =>
        /\ UNCHANGED <<_planets, _fleets>>
        /\ _queued_commands' # _queued_commands =>
              LET n == Len(_queued_commands')
                  pushed == _queued_commands'[n]
              IN  /\ n = Len(_queued_commands) + 1
                  /\ SubSeq(_queued_commands', 1, n - 1) = _queued_commands
                  /\ ExpectedResult(pushed[1], pushed[2].source_planet_id,
                                    pushed[2].destination_planet_id,
                                    pushed[2].count) = "Ok"

\* C5: queue_fleet returns NoSuchPlanet for an id out of range, otherwise
\* NotYourPlanet for a source the player does not own, otherwise
\* NotEnoughShips for a count above the available ships, and in each of these
\* cases the queue, the planets and the fleets are as before the call.
C5_ErrorsLeaveStateUnchanged == []C5_Errors /\ [][C5_Frame]_vars

\* C5 witness: with an order already queued, each of the three errors is
\* returned for some call.
C5_Witness ==
    /\ pc = "idle"
    /\ _queued_commands # <<>>
    /\ \A e \in {"NoSuchPlanet", "NotYourPlanet", "NotEnoughShips"} :
          \E player_id \in PlayerIds, s \in PlanetIds, d \in PlanetIds, count \in Counts :
              queue_fleet(player_id, s, d, count).result = e

\* the fleet whose combat is under way, its planet, and how they arrived
Attacker == _fleets[cursor]
Defender == _planets[Attacker.destination]

\* the arrival at index i of this call has been dealt with
Handled(i) == i < cursor \/ pc = "idle" \/ pc = "panicked"

\* the arrival at index i has just been dealt with: nothing has acted since
JustHandled(i) == pc = "fleets" /\ cursor = i + 1

\* C6: a combat that end_turn has started comes to an end, whatever the two
\* strengths are, as long as no possible outcome of the rolls fails to come
\* forever (the fleet arrived with at least one ship at a planet whose ships
\* are a true count).  A pass of the loop in which both rolls fail leaves the
\* state as it was: a combat in which no other pass is possible is a
\* behaviour that stays in one state with the loop running.
C6_CombatTerminates ==
    (pc = "combat" /\ arrived[cursor].ships >= 1 /\ arrived[cursor].defenders >= 0)
        ~> (pc # "combat")

\* C7 as stated: with a planet without ships and a fleet that has survived
\* the defender's roll, the round ends in AttackSucceeded whatever the
\* attacker's roll is; and a hostile arrival of two ships or more at a planet
\* without ships never ends in AttackFailed.
C7_WinsWhateverTheRoll ==
    /\ pc = "combat" =>
          \A defender_roll \in gen_bool(Defender.strength),
             attacker_roll \in gen_bool(Attacker.strength) :
              LET r == combat_round(Attacker, Defender, defender_roll, attacker_roll)
              IN  (/\ Defender.ships = 0
                   /\ ~(r.done /\ r.messages[1].type = "AttackFailed"))
                  => (r.done /\ r.messages[1].type = "AttackSucceeded")
    /\ \A i \in DOMAIN arrived :
          (/\ arrived[i].kind = "hostile"
           /\ arrived[i].ships >= 2
           /\ arrived[i].defenders = 0
           /\ Handled(i))
          => \A k \in DOMAIN EventsOf(i) : EventsOf(i)[k].type # "AttackFailed"

\* C7: with a planet without ships and a fleet that has survived the
\* defender's roll, the round ends in AttackSucceeded if and only if the
\* attacker's roll succeeds: the planet then takes the fleet's owner and
\* ships; when the roll fails the planet is left as it was and the loop goes on.
C7_WinsOnlyOnAHit ==
    pc = "combat" =>
        \A defender_roll \in gen_bool(Defender.strength),
           attacker_roll \in gen_bool(Attacker.strength) :
            LET r == combat_round(Attacker, Defender, defender_roll, attacker_roll)
            IN  (/\ Defender.ships = 0
                 /\ ~(r.done /\ r.messages[1].type = "AttackFailed"))
                => IF attacker_roll
                   THEN /\ r.done
                        /\ r.messages = <<[type |-> "AttackSucceeded", fleet |-> r.fleet]>>
                        /\ r.dest_planet.owner = {Attacker.owner}
                        /\ r.dest_planet.ships = r.fleet.ships
                   ELSE /\ ~r.done
                        /\ r.messages = <<>>
                        /\ r.dest_planet = Defender

\* C7 witness: a fleet that arrived with two ships or more at a hostile
\* planet without ships has ended in AttackFailed.
C7_Witness ==
    \E i \in DOMAIN arrived :
        /\ arrived[i].kind = "hostile"
        /\ arrived[i].ships >= 2
        /\ arrived[i].defenders = 0
        /\ Handled(i)
        /\ Len(EventsOf(i)) = 1
        /\ EventsOf(i)[1].type = "AttackFailed"

\* C8: a fleet that arrives at a planet its owner does not own gets exactly
\* one event from end_turn.  After AttackSucceeded the planet has the fleet's
\* owner and the fleet's remaining ships; after AttackFailed the planet has
\* the owner it had and the fleet has no ships; in both cases the cleanup
\* drops the fleet.
C8_OneEventPerHostileArrival ==
    \A i \in DOMAIN arrived :
        arrived[i].kind = "hostile" =>
            /\ Len(EventsOf(i)) <= 1
            /\ Handled(i) =>
                  /\ Len(EventsOf(i)) = 1
                  /\ EventsOf(i)[1].type \in {"AttackSucceeded", "AttackFailed"}
            /\ JustHandled(i) =>
                  LET fleet == _fleets[i]
                      planet == _planets[fleet.destination]
                  IN  /\ EventsOf(i)[1].type = "AttackSucceeded" =>
                            planet.owner = {fleet.owner} /\ planet.ships = fleet.ships
                      /\ EventsOf(i)[1].type = "AttackFailed" =>
                            planet.owner = arrived[i].owner /\ fleet.ships = 0
                      /\ ~survives(fleet)

\* C9: a fleet that arrives at a planet of its owner gets exactly one
\* ReinforcementsArrived; the planet then has the ships it had plus the
\* fleet's (in usize arithmetic) and the owner it had; and a combat is only
\* ever under way for a fleet that arrived at a planet of another owner.
C9_FriendlyArrivalReinforces ==
    /\ pc = "combat" => arrived[cursor].kind = "hostile"
    /\ \A i \in DOMAIN arrived :
          arrived[i].kind = "friendly" =>
              /\ Len(EventsOf(i)) = 1
              /\ EventsOf(i)[1].type = "ReinforcementsArrived"
              /\ JustHandled(i) =>
                    LET fleet == _fleets[i]
                        planet == _planets[fleet.destination]
                    IN  /\ EventsOf(i)[1].fleet = fleet
                        /\ arrived[i].owner = {fleet.owner}
                        /\ planet.owner = arrived[i].owner
                        /\ planet.ships = arrived[i].defenders + arrived[i].ships
                        /\ fleet.ships = arrived[i].ships

\* C9 witness: a fleet with ships has just reinforced a planet of its owner.
C9_Witness ==
    \E i \in DOMAIN arrived :
        /\ arrived[i].kind = "friendly"
        /\ arrived[i].ships >= 1
        /\ arrived[i].defenders >= 1
        /\ JustHandled(i)

\* C10: a fleet launched with travel time d >= 1 is resolved (reinforcement
\* or combat) in the d-th end_turn call that advances it and in no other:
\* until then the cleanup keeps it, and after that call it is not in flight.
C10_ResolvedInTheDthCall ==
    /\ pc \in {"fleets", "combat"} =>
          \A i \in DOMAIN arrived :
              flight[i].travel >= 1 =>
                  (arrived[i].kind # "transit" <=> flight[i].calls = flight[i].travel)
    /\ (pc = "fleets" /\ cursor > Len(_fleets)) =>
          \A i \in DOMAIN _fleets :
              flight[i].travel >= 1 =>
                  (survives(_fleets[i]) <=> flight[i].calls < flight[i].travel)
    /\ pc = "idle" =>
          \A i \in DOMAIN _fleets :
              flight[i].travel >= 1 => flight[i].calls < flight[i].travel

\* the planets player p owns
OwnedBy(p) == {i \in ValidPlanetIds : _planets[i].owner = {p}}

\* the arrival at index i of this call ended with the capture of the planet
Captured(i) ==
    /\ arrived[i].kind = "hostile"
    /\ Len(EventsOf(i)) = 1
    /\ EventsOf(i)[1].type = "AttackSucceeded"

\* the captures of planet i in this call
CapturesOf(i) ==
    {k \in DOMAIN arrived : Captured(k) /\ EventsOf(k)[1].fleet.destination = i}

\* the owner planet i had when this call began: a planet changes its owner
\* by a capture only
OwnerAtStart(i) ==
    IF CapturesOf(i) = {} THEN _planets[i].owner
    ELSE arrived[CHOOSE k \in CapturesOf(i) : \A j \in CapturesOf(i) : k <= j].owner

OwnedAtStart(p) == {i \in ValidPlanetIds : OwnerAtStart(i) = {p}}

\* player p began this call with one planet, and it was captured in the call
SolePlanetCaptured(p) ==
    /\ Cardinality(OwnedAtStart(p)) = 1
    /\ \A i \in OwnedAtStart(p) : CapturesOf(i) # {}

\* the number of PlayerEliminated events for player p in the returned events
TimesEliminated(p) ==
    Cardinality({k \in DOMAIN messages :
                    messages[k].type = "PlayerEliminated" /\ messages[k].id = p})

HasFleet(p) == \E i \in DOMAIN _fleets : _fleets[i].owner = p

\* C11 as stated: when end_turn has returned, a player whose only planet was
\* captured in the call and who has no fleet in flight has exactly one
\* PlayerEliminated in the events and is not in remaining_players().
C11_SolePlanetCaptured ==
    Returned =>
        \A p \in PlayerIds :
            (SolePlanetCaptured(p) /\ ~HasFleet(p))
            => (TimesEliminated(p) = 1 /\ p \notin remaining_players)

\* C11: when end_turn has returned, a player whose only planet was captured
\* in the call, who owns no planet after it and has no fleet in flight has
\* exactly one PlayerEliminated in the events and is not in
\* remaining_players().
C11_NothingLeft ==
    Returned =>
        \A p \in PlayerIds :
            (SolePlanetCaptured(p) /\ OwnedBy(p) = {} /\ ~HasFleet(p))
            => (TimesEliminated(p) = 1 /\ p \notin remaining_players)

\* C11 witness: end_turn has returned, the only planet of a player was
\* captured in the call and the player has nothing left.
C11_Witness ==
    /\ Returned
    /\ \E p \in PlayerIds :
          /\ SolePlanetCaptured(p)
          /\ OwnedBy(p) = {}
          /\ ~HasFleet(p)
          /\ TimesEliminated(p) = 1

C12_AfterSubsetOfBefore == Returned => remaining_players \subseteq alive_before

C12_NoStepGrows ==
    /\ remaining_players' \subseteq remaining_players
    /\ (pc = "idle" /\ pc' = "idle") => remaining_players' = remaining_players

\* C12: remaining_players() after an end_turn call is a subset of
\* remaining_players() before it, queue_fleet does not change
\* remaining_players(), and no step of either operation adds a player to it.
C12_RemainingNeverGrows == []C12_AfterSubsetOfBefore /\ [][C12_NoStepGrows]_vars

\* C12 witness: end_turn has returned with fewer remaining players than
\* there were before the call.
C12_Witness ==
    /\ Returned
    /\ remaining_players # alive_before
    /\ remaining_players \subseteq alive_before

\* what planet i gains in the production step
Gain(i) == IF _planets[i].owner # {} THEN _planets[i].production ELSE 0

C13_Begin ==
    (pc = "idle" /\ pc' = "fleets") =>
        \A i \in ValidPlanetIds :
            /\ produce(_planets)[i] = [_planets[i] EXCEPT !.ships = @ + Gain(i)]
            /\ _planets'[i] = [_planets[i] EXCEPT !.ships = @ + Gain(i) - QueuedFrom(i)]

\* C13: in the step of end_turn that ends with the orders materialized, a
\* planet that has an owner gains its production, a neutral planet gains
\* nothing, and the queued orders leave their source after that: the planet
\* is left with its ships plus its gain less the ships queued from it.
C13_ProductionThenOrders == [][C13_Begin]_vars

\* C13 witness: in the first end_turn call the production step and the
\* materialization are over: a planet with an owner holds its 10 ships, its
\* production of 10, less the ships of the fleet that left it, and a neutral
\* planet with a production above 0 holds no ship.
C13_Witness ==
    /\ pc = "fleets" /\ cursor = 1 /\ arrived = <<>> /\ turn = 1
    /\ Len(_fleets) = 1
    /\ _fleets[1].ships >= 1
    /\ \E i \in ValidPlanetIds :
          /\ _planets[i].owner # {}
          /\ _planets[i].ships = 10 + _planets[i].production - _fleets[1].ships
    /\ \E i \in ValidPlanetIds :
          /\ _planets[i].owner = {}
          /\ _planets[i].production > 0
          /\ _planets[i].ships = 0

\* the fleet the k-th queued order is to become
FleetOf(k) ==
    LET player == _queued_commands[k][1]
        command == _queued_commands[k][2]
    IN  [ships |-> command.count,
         strength |-> _planets[command.source_planet_id].strength,
         turns_to_arrival |-> distance(_planets[command.source_planet_id],
                                       _planets[command.destination_planet_id]),
         destination |-> command.destination_planet_id,
         owner |-> player]

C14_Begin ==
    (pc = "idle" /\ pc' = "fleets") =>
        /\ Len(_fleets') = Len(_fleets) + Len(_queued_commands)
        /\ SubSeq(_fleets', 1, Len(_fleets)) = _fleets
        /\ \A k \in DOMAIN _queued_commands : _fleets'[Len(_fleets) + k] = FleetOf(k)
        /\ \A i \in ValidPlanetIds :
              _planets'[i].ships = _planets[i].ships + Gain(i) - QueuedFrom(i)
        /\ _queued_commands' = <<>>

C14_Drained == pc # "idle" => _queued_commands = <<>>

C14_Return == (pc # "idle" /\ pc' = "idle") => _queued_commands' = <<>>

\* C14: end_turn turns each queued order, in the order of the queue, into one
\* fleet with the order's count for ships, the source's strength, the
\* ordering player for owner, the order's destination and
\* distance(source, destination) for travel time, takes the count from the
\* source, and the queue is empty from then on until end_turn has returned.
C14_OrdersBecomeFleets ==
    []C14_Drained /\ [][C14_Begin /\ C14_Return]_vars

\* C14 witness: two orders of one turn have just become two fleets with
\* ships.
C14_Witness ==
    /\ pc = "fleets" /\ cursor = 1 /\ arrived = <<>>
    /\ Len(_fleets) = 2
    /\ flight[1].calls = 0 /\ flight[2].calls = 0
    /\ _fleets[1].ships >= 1 /\ _fleets[2].ships >= 1

C15_Appends ==
    pc = "idle" =>
        \A player_id \in PlayerIds, s \in PlanetIds, d \in PlanetIds, count \in Counts :
            LET r == queue_fleet(player_id, s, d, count)
            IN  r.result = "Ok" =>
                    r.queue = Append(_queued_commands,
                                     <<player_id, [source_planet_id |-> s,
                                                   destination_planet_id |-> d,
                                                   count |-> count]>>)

C15_Call ==
    (pc = "idle" /\ pc' = "idle") =>
        /\ UNCHANGED <<_planets, _fleets, _players, _w, _h>>
        /\ \/ _queued_commands' = _queued_commands
           \/ \E player_id \in PlayerIds, s \in PlanetIds, d \in PlanetIds,
                 count \in Counts :
                 LET r == queue_fleet(player_id, s, d, count)
                 IN  r.result = "Ok" /\ _queued_commands' = r.queue

\* C15: a call of queue_fleet that succeeds appends its order, once, at the
\* end of the queue, and no call of queue_fleet changes a planet or a fleet:
\* the ships and owners of the planets and the fleets in flight are as they
\* were until end_turn is called.
C15_SuccessOnlyAppends == []C15_Appends /\ [][C15_Call]_vars

\* C15 witness: before the first end_turn two orders with ships are queued
\* and the planets still hold what Game::new gave them.
C15_Witness ==
    /\ pc = "idle" /\ turn = 0
    /\ Len(_queued_commands) = 2
    /\ \A k \in DOMAIN _queued_commands : _queued_commands[k][2].count >= 1
    /\ \A i \in ValidPlanetIds :
          _planets[i].ships = IF _planets[i].owner # {} THEN 10 ELSE 0
    /\ _fleets = <<>>

\* every fleet has been advanced and the cleanup is about to run
BeforeCleanup == pc = "fleets" /\ cursor > Len(_fleets)

C16_InFlight ==
    /\ pc = "idle" => \A i \in DOMAIN _fleets : survives(_fleets[i])
    /\ BeforeCleanup =>
          \A i \in DOMAIN _fleets :
              arrived[i].kind = "transit" => survives(_fleets[i])

C16_Step ==
    /\ (pc = "fleets" /\ pc' \in {"fleets", "combat"}) =>
          _fleets' = [_fleets EXCEPT ![cursor].turns_to_arrival = @ - 1]
    /\ (pc = "combat" /\ pc' \in {"fleets", "combat"}) =>
          \A i \in DOMAIN _fleets : i # cursor => _fleets'[i] = _fleets[i]
    /\ (pc = "fleets" /\ pc' = "idle") =>
          \A i \in DOMAIN _fleets :
              arrived[i].kind = "transit" =>
                  \E k \in DOMAIN _fleets' : _fleets'[k] = _fleets[i]

\* C16: when end_turn has returned every fleet in flight has
\* turns_to_arrival > 0 and ships > 0; a fleet that did not arrive in the
\* call has had its turns_to_arrival reduced by one and nothing else changed,
\* and it is kept in flight by the cleanup.
C16_TransitFleetsKept == []C16_InFlight /\ [][C16_Step]_vars

\* the fleet at index i is in flight or in its combat: it has not been
\* resolved in this call
Live(i) ==
    \/ pc = "idle"
    \/ /\ pc \in {"fleets", "combat"}
       /\ (i >= cursor \/ arrived[i].kind = "transit")

\* C17: every order in the queue, every fleet in flight or in its combat, and
\* every fleet at the moment it arrives has at least one ship.
C17_FleetsHaveShips ==
    /\ \A k \in DOMAIN _queued_commands : ULt(0, _queued_commands[k][2].count)
    /\ \A i \in DOMAIN _fleets : Live(i) => ULt(0, _fleets[i].ships)
    /\ pc \in {"fleets", "combat"} =>
          \A i \in DOMAIN arrived : ULt(0, arrived[i].ships)

\* the fleet at index i of this call came with ships and strength 0 to a
\* planet of another owner that has strength 100
Hopeless(i) ==
    /\ pc \in {"fleets", "combat"}
    /\ arrived[i].kind = "hostile"
    /\ arrived[i].ships >= 1
    /\ _fleets[i].strength = 0
    /\ _planets[_fleets[i].destination].strength = 100

\* a pass of the combat loop for a fleet of strength 0 with k ships at a
\* planet of strength 100 with n ships
HopelessRound(k, n, defender_roll, attacker_roll) ==
    combat_round([ships |-> k, strength |-> 0, turns_to_arrival |-> 0,
                  destination |-> 1, owner |-> 0],
                 [name |-> "B", ships |-> n, strength |-> 100, production |-> 5,
                  pos |-> <<1, 0>>, owner |-> {}],
                 defender_roll, attacker_roll)

C18_AnyDefenders ==
    \A k \in 1..MaxShips, n \in 0..MaxShips :
        \A defender_roll \in gen_bool(100), attacker_roll \in gen_bool(0) :
            LET r == HopelessRound(k, n, defender_roll, attacker_roll)
            IN  /\ r.fleet.ships = k - 1
                /\ r.dest_planet.ships = n
                /\ r.dest_planet.owner = {}
                /\ r.done <=> k = 1
                /\ r.done => r.messages[1].type = "AttackFailed"

\* C18: a fleet with strength 0 and at least one ship that arrives at a
\* planet of another owner with strength 100 loses a ship in every pass of
\* the combat loop and leaves the planet as it was, ends in AttackFailed when
\* its last ship is lost, and the planet then has the owner and the ships it
\* had, whatever its ships are.
C18_HopelessAttackFails ==
    /\ C18_AnyDefenders
    /\ \A i \in DOMAIN arrived :
        Hopeless(i) =>
            LET fleet == _fleets[i]
                planet == _planets[fleet.destination]
            IN  /\ (pc = "combat" /\ cursor = i) =>
                      /\ EventsOf(i) = <<>>
                      /\ fleet.ships >= 1
                      /\ planet.owner = arrived[i].owner
                      /\ planet.ships = arrived[i].defenders
                      /\ \A defender_roll \in gen_bool(planet.strength),
                            attacker_roll \in gen_bool(fleet.strength) :
                            LET r == combat_round(fleet, planet, defender_roll,
                                                  attacker_roll)
                            IN  /\ r.fleet.ships = fleet.ships - 1
                                /\ r.dest_planet = planet
                                /\ r.done <=> fleet.ships = 1
                                /\ r.done => r.messages[1].type = "AttackFailed"
                /\ i < cursor =>
                      /\ Len(EventsOf(i)) = 1
                      /\ EventsOf(i)[1].type = "AttackFailed"
                /\ JustHandled(i) =>
                      /\ planet.owner = arrived[i].owner
                      /\ planet.ships = arrived[i].defenders

\* C18 witness: a fleet with strength 0 and a ship has been defeated at a
\* planet of strength 100.
C18_Witness ==
    \E i \in DOMAIN arrived :
        /\ Hopeless(i)
        /\ JustHandled(i)
        /\ EventsOf(i)[1].type = "AttackFailed"

\* C19: between the calls, get_winner is Some(p) if and only if the
\* remaining players are exactly p, and it is None when no player or two
\* players or more remain.
C19_WinnerIffAlone ==
    pc = "idle" =>
        /\ \A p \in PlayerIds : get_winner = {p} <=> remaining_players = {p}
        /\ Cardinality(remaining_players) # 1 => get_winner = {}
        /\ get_winner \subseteq PlayerIds

\* C19 witness: a game of two players has been won.
C19_Witness ==
    /\ Returned
    /\ Len(_players) = 2
    /\ \E p \in PlayerIds : get_winner = {p} /\ remaining_players = {p}

\* C20: a call of Game::new that is over has returned
\* Err(TooManyPlanets) if and only if players.len() + neutral_planets is
\* above w * h, and Ok(Game) otherwise: it has not panicked, whatever the
\* number of planets is.
C20_NewErrIffTooMany ==
    pc # "new" =>
        LET total_planets == Len(args.players) + args.neutral_planets
        IN  /\ pc = "TooManyPlanets" <=> total_planets > args.w * args.h
            /\ total_planets <= args.w * args.h => pc = "idle"

\* C21: a game returned by Game::new for N players and M neutral planets
\* has N + M planets at pairwise distinct positions inside the w x h grid;
\* planet i < N is owned by player i with 10 ships, strength 40 and
\* production 10; the other M planets are neutral with 0 ships; no fleet is
\* in flight and no order is queued.
C21_FreshGame ==
    pc = "idle" =>
        LET N == Len(args.players)
            M == args.neutral_planets
        IN  /\ DOMAIN _planets = 0..(N + M - 1)
            /\ \A i, j \in DOMAIN _planets : _planets[i].pos = _planets[j].pos => i = j
            /\ \A i \in DOMAIN _planets :
                  /\ _planets[i].pos[1] \in 0..(args.w - 1)
                  /\ _planets[i].pos[2] \in 0..(args.h - 1)
                  /\ i < N => /\ _planets[i].owner = {i}
                              /\ _planets[i].ships = 10
                              /\ _planets[i].strength = 40
                              /\ _planets[i].production = 10
                  /\ i >= N => /\ _planets[i].owner = {}
                               /\ _planets[i].ships = 0
            /\ _players = args.players
            /\ _w = args.w /\ _h = args.h
            /\ _fleets = <<>>
            /\ _queued_commands = <<>>

\* C21 witness: Game::new has returned a game of two players and three
\* neutral planets on a grid of two dimensions.
C21_Witness ==
    /\ pc = "idle"
    /\ Len(args.players) = 2
    /\ args.neutral_planets = 3
    /\ args.w > 1 /\ args.h > 1
    /\ Cardinality(DOMAIN _planets) = 5

\* what no operation changes of a planet, and of a fleet
Fixed(planet) == <<planet.name, planet.strength, planet.production, planet.pos>>
Marks(fleet) == <<fleet.strength, fleet.owner, fleet.destination>>

C22_Step ==
    /\ DOMAIN _planets' = DOMAIN _planets
    /\ \A i \in DOMAIN _planets : Fixed(_planets'[i]) = Fixed(_planets[i])
    /\ UNCHANGED <<_players, _w, _h>>
    /\ IF pc = "fleets" /\ pc' = "idle"
       THEN \A k \in DOMAIN _fleets' : \E i \in DOMAIN _fleets : _fleets'[k] = _fleets[i]
       ELSE /\ Len(_fleets') >= Len(_fleets)
            /\ \A i \in DOMAIN _fleets : Marks(_fleets'[i]) = Marks(_fleets[i])

\* C22: no step of queue_fleet or end_turn changes the name, strength,
\* production or position of a planet, the number of planets, or the
\* players; a fleet keeps its strength, owner and destination in every step,
\* and the fleets the cleanup keeps are fleets as they were before it.
C22_OnlyCountsAndOwnersChange == [][C22_Step]_vars

\* C22 witness: a fleet is in flight after an end_turn call that has
\* advanced it, and a planet has changed hands.
C22_Witness ==
    /\ Returned
    /\ \E k \in DOMAIN _fleets : flight[k].calls >= 1
    /\ \E i \in DOMAIN arrived : Captured(i)

\* the arrivals handled so far in this call are those of the fleets before
\* the cursor, in the order of the list; each has its event, the events are
\* in the order of the fleets, and every PlayerEliminated comes after them
C23_InListOrder ==
    /\ pc \in {"fleets", "combat"} =>
          /\ Len(arrived) = IF pc = "combat" THEN cursor ELSE cursor - 1
          /\ \A i \in DOMAIN arrived :
                /\ i < Len(arrived) => arrived[i].first <= arrived[i + 1].first
                /\ i < cursor =>
                      IF arrived[i].kind = "transit"
                      THEN EventsOf(i) = <<>>
                      ELSE Len(EventsOf(i)) = 1 /\ Marks(EventsOf(i)[1].fleet) = Marks(_fleets[i])
          \* a second fleet of the owner that has just taken the planet
          /\ \A i \in DOMAIN arrived :
                (/\ i + 1 < cursor
                 /\ Captured(i)
                 /\ arrived[i + 1].kind # "transit"
                 /\ Marks(_fleets[i + 1]) = Marks(_fleets[i]))
                => /\ arrived[i + 1].kind = "friendly"
                   /\ arrived[i + 1].owner = {_fleets[i].owner}
                   /\ arrived[i + 1].defenders = _fleets[i].ships
                   /\ EventsOf(i + 1)[1].type = "ReinforcementsArrived"
    /\ \A k, l \in DOMAIN messages :
          (k < l /\ messages[k].type = "PlayerEliminated")
          => messages[l].type = "PlayerEliminated"

C23_Step ==
    \* the fleets in flight first, then the orders as they were queued
    /\ (pc = "idle" /\ pc' = "fleets") =>
          /\ SubSeq(_fleets', 1, Len(_fleets)) = _fleets
          /\ \A k \in DOMAIN _queued_commands : _fleets'[Len(_fleets) + k] = FleetOf(k)
    \* a fleet that arrives is dealt with on the planet as it is by then
    /\ (pc = "fleets" /\ pc' \in {"fleets", "combat"}) =>
          LET fleet == _fleets'[cursor]
              planet == _planets[fleet.destination]
              now == arrived'[Len(arrived')]
          IN  /\ Len(arrived') = Len(arrived) + 1
              /\ now.owner = planet.owner
              /\ now.defenders = planet.ships
              /\ now.kind = IF fleet.turns_to_arrival # 0 THEN "transit"
                            ELSE IF planet.owner = {fleet.owner} THEN "friendly"
                            ELSE "hostile"
              /\ pc' = "combat" <=> now.kind = "hostile"
              /\ now.kind = "transit" => UNCHANGED <<_planets, messages>>
    \* the events of a call only grow, at the end
    /\ (pc \in {"fleets", "combat"} /\ pc' # "panicked") =>
          /\ Len(messages') >= Len(messages)
          /\ SubSeq(messages', 1, Len(messages)) = messages

\* C23: in one end_turn call the fleets are dealt with one at a time in the
\* order of the in-flight list (the fleets of earlier turns, then this turn's
\* orders as submitted), each on the planets as the one before left them: a
\* second fleet of the same owner at a planet the first has just captured is
\* a reinforcement.  The events are in that order, and every
\* PlayerEliminated comes after every arrival event.
C23_ResolvedInListOrder == []C23_InListOrder /\ [][C23_Step]_vars

\* C23 witness: two fleets of one owner arrived at the same planet in one
\* call; the first captured it and the second has just reinforced it.
C23_Witness ==
    /\ JustHandled(2)
    /\ Captured(1)
    /\ arrived[1].ships >= 1
    /\ arrived[2].ships >= 1
    /\ Marks(_fleets[1]) = Marks(_fleets[2])
    /\ arrived[2].kind = "friendly"
    /\ EventsOf(2)[1].type = "ReinforcementsArrived"

\* C24: a player that an end_turn call has reported eliminated is not
\* reported by a later call, and is not in remaining_players() when that
\* call or a later one has returned.
C24_EliminatedOnce ==
    pc = "idle" =>
        /\ Eliminated \cap reported = {}
        /\ remaining_players \cap (Eliminated \cup reported) = {}

\* the ships on the planets 0..(n - 1), what these planets produce for their
\* owners, and the ships of the first n fleets that are still to be resolved
RECURSIVE OnPlanets(_, _)
OnPlanets(planets, n) ==
    IF n = 0 THEN 0 ELSE OnPlanets(planets, n - 1) + planets[n - 1].ships

RECURSIVE Produced(_, _)
Produced(planets, n) ==
    IF n = 0 THEN 0
    ELSE Produced(planets, n - 1)
         + (IF planets[n - 1].owner # {} THEN planets[n - 1].production ELSE 0)

RECURSIVE InFleets(_)
InFleets(n) ==
    IF n = 0 THEN 0
    ELSE InFleets(n - 1) + (IF Live(n) THEN _fleets[n].ships ELSE 0)

\* all the units of the game: on the planets and in the fleets still to be
\* resolved
Units == OnPlanets(_planets, NumPlanets) + InFleets(Len(_fleets))

C25_Step ==
    \* production creates units; materialization moves them
    /\ (pc = "idle" /\ pc' = "fleets") =>
          Units' = Units + Produced(_planets, NumPlanets)
    \* a fleet that goes on or reinforces a planet changes nothing of the total
    /\ (pc = "fleets" /\ pc' = "fleets") => Units' = Units
    \* the cleanup and queue_fleet change nothing of the total
    /\ (pc = "fleets" /\ pc' = "idle") => Units' = Units
    /\ (pc = "idle" /\ pc' = "idle") => Units' = Units
    \* a capture leaves the fleet's surviving ships on the planet
    /\ (pc = "combat" /\ pc' = "fleets" /\ Len(messages') > Len(messages)
        /\ messages'[Len(messages')].type = "AttackSucceeded") =>
          LET fleet == _fleets'[cursor]
          IN  /\ _planets'[fleet.destination].ships = fleet.ships
              /\ _planets'[fleet.destination].owner = {fleet.owner}
              /\ messages'[Len(messages')].fleet = fleet

\* C25: the units of the game (the ships on the planets and in the fleets
\* in flight, in usize arithmetic) grow by the production of the owned
\* planets when end_turn begins, and no step other than a pass of a combat
\* changes them after that: materialization, the advance of a fleet, a
\* reinforcement, the cleanup and queue_fleet leave the total as it is, so a
\* call without a combat adds exactly the production.  A capture leaves on
\* the planet exactly the ships the fleet has left.
C25_UnitsConserved == [][C25_Step]_vars

\* C25 witness: an end_turn call in which a fleet with ships reinforced a
\* planet and no fleet fought has returned.
C25_Witness ==
    /\ Returned
    /\ ~wrapping
    /\ \A i \in DOMAIN arrived : arrived[i].kind # "hostile"
    /\ \E i \in DOMAIN arrived : arrived[i].kind = "friendly" /\ arrived[i].ships >= 1

\* every planet has no owner or a player of the game as its owner
C26_OwnersExist ==
    \A id \in DOMAIN _planets : _planets[id].owner \subseteq PlayerIds

C26_Step ==
    /\ DOMAIN _planets' = DOMAIN _planets
    /\ \A id \in DOMAIN _planets :
          /\ _planets[id].owner # {} => _planets'[id].owner # {}
          /\ _planets'[id].owner # _planets[id].owner =>
                /\ pc = "combat"
                /\ Len(messages') = Len(messages) + 1
                /\ LET event == messages'[Len(messages')]
                   IN  /\ event.type = "AttackSucceeded"
                       /\ event.fleet = _fleets'[cursor]
                       /\ event.fleet.destination = id
                       /\ _planets'[id].owner = {event.fleet.owner}

\* C26: in every state each planet's owner is None or the id of a player of
\* the game; a planet that has an owner keeps having one; and a planet's
\* owner changes only in a pass of a combat inside end_turn that pushes an
\* AttackSucceeded event for a fleet bound for that planet, and then to the
\* owner of that fleet.
C26_OwnershipByCapture == []C26_OwnersExist /\ [][C26_Step]_vars

\* C26 witness: end_turn has returned after a fleet captured a planet that
\* another player owned, and the planet now belongs to the fleet's owner.
C26_Witness ==
    /\ Returned
    /\ ~wrapping
    /\ \E i \in DOMAIN arrived :
          /\ Captured(i)
          /\ LET fleet == EventsOf(i)[1].fleet
             IN  /\ OwnerAtStart(fleet.destination) # {}
                 /\ OwnerAtStart(fleet.destination) # {fleet.owner}
                 /\ _planets[fleet.destination].owner = {fleet.owner}

\* the players of a set in ascending order of their ids
RECURSIVE Ascending(_)
Ascending(ids) ==
    IF ids = {} THEN <<>>
    ELSE LET smallest == CHOOSE a \in ids : \A b \in ids : a <= b
         IN  <<smallest>> \o Ascending(ids \ {smallest})

C27_Step ==
    \* Game::end_turn is called when every remaining player has finished a move
    \* phase, each once and in ascending order
    /\ (pc = "idle" /\ pc' = "fleets") => moved' = Ascending(remaining_players)
    \* the player at the prompt is the next of the remaining players
    /\ Prompt' =>
          /\ Len(moved') < Cardinality(remaining_players')
          /\ Append(moved', current_player_id') =
                SubSeq(Ascending(remaining_players'), 1, Len(moved') + 1)

\* C27: under the front end, when Game::end_turn is called, the first call
\* included, the players that have finished a move phase with 'n' since the
\* call before are exactly the players of remaining_players(), each once and
\* in ascending order of their ids; and the player at the prompt is always
\* the next of them.
C27_TurnRotation == [][C27_Step]_vars

====
